---- MODULE Spec2Model ----
(***************************************************************************)
(* Model of the fraud detection batch pipeline (pipeline.py) and of the    *)
(* ingestion service that feeds its queue (api.py).                        *)
(*                                                                         *)
(* Specifications                                                          *)
(*   - Spec: the runs of the pipeline against an empty store, fed by a     *)
(*     service that asks for no token and reaches Redis;                   *)
(*   - SpecSchema: the same runs on tables an earlier run has written;     *)
(*   - SpecCollect: the runs on inputs that cannot be read;                *)
(*   - SpecApi: the ingestion service on its own, with every outcome of a  *)
(*     request and of a trigger task;                                      *)
(*   - SpecDrain: the drain loop on its own, up to and beyond its cap.     *)
(*                                                                         *)
(* Encoding                                                                *)
(*   - a transaction_id "TXN<n>" is the pair <<"TXN", n>>;                 *)
(*   - an amount is a number of hundredths (9999.99 is 999999);            *)
(*   - a nullable value is None == <<>> or Some(v) == <<v>>;               *)
(*   - a table is the set of its rows, a DataFrame the sequence of its     *)
(*     rows, the Redis list the sequence of its items.                     *)
(***************************************************************************)
EXTENDS Integers, Sequences, FiniteSets, TLC

\* ------------------------------------------------------------------ bounds
\* Pipeline runs that may overlap.
Runs == {1, 2}
\* Items pushed onto the queue.
MaxEnq == 2
\* Requests the ingestion service serves, refused ones included.
MaxReq == 3
\* Latest second of the host clock (time.time()).
MaxWall == 1
\* Queue items above the drain cap in the drain specification.
QueueOver == 1000
\* Iterations before the drain cap the drain specification takes a run up at.
DrainTail == 30

\* ------------------------------------------------------- program constants
max_to_drain == 5000
\* amt >= 10000, in hundredths
Threshold == 1000000
risk_score_high == 90
\* range(1, 51)
SyntheticCount == 50

None == <<>>
Some(v) == <<v>>

TXN(n) == <<"TXN", n>>

Min(a, b) == IF a < b THEN a ELSE b

\* ------------------------------------------------------------ input domain
\* Payloads the ingestion endpoint accepts (Transaction: amount > 0, the
\* defaults location "USA" and device "Web").
Payloads ==
    { [transaction_id |-> TXN(1), amount |-> 1000000, location |-> Some("USA"), device |-> Some("Web")],
      [transaction_id |-> TXN(1), amount |-> 999999,  location |-> Some("CAN"), device |-> Some("Mobile")] }

\* Values of the header X-API-TOKEN: absent, the service's token, another.
Headers == {None, Some("secret"), Some("guess")}

\* Bodies of a batch request.
Batches ==
    {<<>>} \cup { <<p>> : p \in Payloads }
           \cup { <<p, q>> : p \in Payloads, q \in { x \in Payloads : x.amount < Threshold } }

\* Contents of data/transactions_sample.csv: absent, without the required
\* columns, or a table of rows (location and device columns are optional).
CsvRow(n, amt) == [transaction_id |-> TXN(n), amount |-> amt, location |-> None, device |-> None]

CsvFiles ==
    { [exists |-> FALSE, columns_ok |-> TRUE,  rows |-> <<>>],
      [exists |-> TRUE,  columns_ok |-> FALSE, rows |-> <<>>],
      [exists |-> TRUE,  columns_ok |-> TRUE,  rows |-> <<>>],
      [exists |-> TRUE,  columns_ok |-> TRUE,  rows |-> <<CsvRow(2, 999999), CsvRow(1, 1000000)>>],
      [exists |-> TRUE,  columns_ok |-> TRUE,  rows |-> <<CsvRow(1, 2500000), CsvRow(1, 5000)>>] }

\* ------------------------------------------------------------- queue items
\* json.dumps(payload) / json.loads(item): an item is a tagged text; only a
\* "json" text deserializes, to the payload it was made from.
json_dumps(payload) == <<"json", payload>>

\* A drain that takes every item for a document.
json_ok_any(item) == TRUE

json_ok(item) == item[1] = "json"

json_loads(item) == item[2]

\* A text that is no JSON document: what is left of an item cut short.
truncated(payload) == <<"text", payload>>

\* A pop at the back of the list.
rpop_item(q) == q[Len(q)]

\* r.lpop: the item at the front, and the list without it.
lpop_item(q) == Head(q)

\* A read of the front item that leaves it in the list.
lpop_rest_peek(q) == q

lpop_rest(q) == Tail(q)

\* r.rpush: the list with the item at the back.
rpush(q, item) == Append(q, item)

\* --------------------------------------------------------- secondary source
\* for i in range(1, 51): TXN{base_id + i}, 25 * i or the 25000 spike.
synthetic_row(base_id, i) ==
    [transaction_id |-> TXN(base_id + i),
     amount         |-> IF i % 7 # 0 THEN 25 * i * 100 ELSE 25000 * 100,
     location       |-> Some(IF i % 3 # 0 THEN "USA" ELSE "CAN"),
     device         |-> Some(IF i % 2 # 0 THEN "Web" ELSE "Mobile")]

synthetic(base_id) == [i \in 1..SyntheticCount |-> synthetic_row(base_id, i)]

\* load_file_or_synthetic: the file's rows when the file exists, else the
\* synthetic rows; a file without the required columns raises.
load_raises(file) == file.exists /\ ~file.columns_ok

\* Synthetic rows also in the place of a file that holds no row.
load_file_or_synthetic_fallback(file, base_id) ==
    IF file.exists /\ file.rows # <<>> THEN file.rows ELSE synthetic(base_id)

load_file_or_synthetic(file, base_id) ==
    IF file.exists THEN file.rows ELSE synthetic(base_id)

\* The working set made of the secondary source alone.
concat_without_queue(q, base) == base

\* The secondary source ahead of the queue rows.
concat_reversed(q, base) == base \o q

\* df = pd.concat([qdf, base]) if not qdf.empty else base
concat(q, base) == IF q # <<>> THEN q \o base ELSE base

\* ------------------------------------------------------------ classification
\* The threshold taken as exclusive.
is_high_strict(amt) == amt > Threshold

is_high(amt) == amt >= Threshold

candidate(r) ==
    [transaction_id |-> r.transaction_id,
     amount         |-> r.amount,
     risk_score     |-> risk_score_high,
     flagged_reason |-> "high_amount"]

detect_fraud(d) ==
    LET hits == SelectSeq(d, LAMBDA r : is_high(r.amount))
    IN  [i \in 1..Len(hits) |-> candidate(hits[i])]

\* ------------------------------------------------------------- ledger rows
CandidateIds(al) == { al[i].transaction_id : i \in 1..Len(al) }

\* alert_lookup = {a["transaction_id"]: a for a in alerts}: the last
\* candidate of each id.
alert_lookup(al, tid) ==
    al[CHOOSE i \in 1..Len(al) :
          /\ al[i].transaction_id = tid
          /\ \A j \in (i + 1)..Len(al) : al[j].transaction_id # tid]

\* The row that never carries the flags.
ledger_row_unflagged(r, al) ==
    [transaction_id |-> r.transaction_id,
     amount         |-> r.amount,
     location       |-> r.location,
     device         |-> r.device,
     is_flagged     |-> FALSE,
     risk_score     |-> None,
     flagged_reason |-> None]

ledger_row(r, al) ==
    LET flagged == r.transaction_id \in CandidateIds(al)
    IN  [transaction_id |-> r.transaction_id,
         amount         |-> r.amount,
         location       |-> r.location,
         device         |-> r.device,
         is_flagged     |-> flagged,
         risk_score     |-> IF flagged THEN Some(alert_lookup(al, r.transaction_id).risk_score) ELSE None,
         flagged_reason |-> IF flagged THEN Some(alert_lookup(al, r.transaction_id).flagged_reason) ELSE None]

ledger_rows(d, al) == [i \in 1..Len(d) |-> ledger_row(d[i], al)]

\* ------------------------------------------------------------- the store
\* The statement without its ON CONFLICT clause, on a table without its key.
upsert_insert_only(table, row, now) ==
    table \cup { [transaction_id |-> row.transaction_id,
                  amount         |-> row.amount,
                  location       |-> row.location,
                  device         |-> row.device,
                  processed_at   |-> now,
                  is_flagged     |-> row.is_flagged,
                  risk_score     |-> row.risk_score,
                  flagged_reason |-> row.flagged_reason] }

\* ON CONFLICT (transaction_id) DO NOTHING in the place of DO UPDATE.
upsert_keep_first(table, row, now) ==
    IF \E x \in table : x.transaction_id = row.transaction_id
    THEN table
    ELSE upsert_insert_only(table, row, now)

\* DO UPDATE SET amount, processed_at alone: the other columns of a row
\* that is there are kept.
upsert_amount_only(table, row, now) ==
    IF \E x \in table : x.transaction_id = row.transaction_id
    THEN { IF x.transaction_id = row.transaction_id
           THEN [x EXCEPT !.amount = row.amount, !.processed_at = now]
           ELSE x : x \in table }
    ELSE upsert_insert_only(table, row, now)

\* INSERT INTO transactions_all ... ON CONFLICT (transaction_id) DO UPDATE:
\* the row of that id is replaced, processed_at is the transaction's time.
upsert(table, row, now) ==
    { x \in table : x.transaction_id # row.transaction_id }
      \cup { [transaction_id |-> row.transaction_id,
              amount         |-> row.amount,
              location       |-> row.location,
              device         |-> row.device,
              processed_at   |-> now,
              is_flagged     |-> row.is_flagged,
              risk_score     |-> row.risk_score,
              flagged_reason |-> row.flagged_reason] }

RECURSIVE upsert_all(_, _, _)
upsert_all(table, rows, now) ==
    IF rows = <<>> THEN table
    ELSE upsert_all(upsert(table, Head(rows), now), Tail(rows), now)

\* DROP TABLE IF EXISTS ahead of CREATE TABLE: the table is made anew.
create_table_anew(existing, name, rows) == {}

\* CREATE TABLE IF NOT EXISTS: the rows of the table afterwards.
create_table_if_not_exists(existing, name, rows) ==
    IF name \in existing THEN rows ELSE {}

\* The insert that never sees a conflict.
alert_conflict_never(table, a) == FALSE

\* INSERT INTO fraud_alerts ... ON CONFLICT (transaction_id) DO NOTHING.
alert_conflict(table, a) == \E x \in table : x.transaction_id = a.transaction_id

alert_row(a, id, now) ==
    [alert_id       |-> id,
     transaction_id |-> a.transaction_id,
     amount         |-> a.amount,
     risk_score     |-> a.risk_score,
     flagged_reason |-> a.flagged_reason,
     created_at     |-> now]

Range(s) == { s[i] : i \in 1..Len(s) }

Ids(d) == { d[n].transaction_id : n \in 1..Len(d) }

\* ------------------------------------------------------------------- state
VARIABLES
    queue,            \* the Redis list QUEUE_NAME
    csv,              \* the file at CSV_PATH
    REDIS_URL,        \* whether the pipeline is configured with a queue
    wall,             \* the host clock, in seconds
    dbnow,            \* the store's clock: the latest transaction start
    alert_seq,        \* the sequence behind fraud_alerts.alert_id
    schema,           \* the tables that exist
    transactions_all, \* the ledger table
    fraud_alerts,     \* the alert table
    pc,               \* where each run is in main()
    conn,             \* each run's connection
    qdf,              \* each run's drained queue rows
    base,             \* each run's secondary source rows
    df,               \* each run's working set
    alerts,           \* each run's alert candidates
    i,                \* each run's loop position (drain loop, batch statement)
    tx,               \* each run's open database transaction
    summary,          \* the counts each run has printed
    pushed,           \* history: every item ever pushed, in order
    latest,           \* history: the occurrence last committed, by id
    flagged_ever,     \* history: ids a ledger row was committed flagged for
    effect,           \* history: what each run has committed
    journal,          \* history: the steps each run has entered, how it ended
    API_TOKEN,        \* the token the ingestion service asks for, if any
    GITHUB_TOKEN,     \* whether the ingestion service can dispatch the workflow
    redis_up,         \* whether Redis answers the ingestion service
    requests,         \* history: the requests served, with their responses
    tasks             \* the trigger tasks the ingestion service has created

vars == <<queue, csv, REDIS_URL, wall, dbnow, alert_seq, schema, transactions_all,
          fraud_alerts, pc, conn, qdf, base, df, alerts, i, tx, summary,
          pushed, latest, flagged_ever, effect, journal,
          API_TOKEN, GITHUB_TOKEN, redis_up, requests, tasks>>

api_vars == <<API_TOKEN, GITHUB_TOKEN, redis_up, requests, tasks>>

store_vars == <<dbnow, alert_seq, schema, transactions_all, fraud_alerts>>

hist_vars == <<latest, flagged_ever, effect>>

data_vars == <<qdf, base, df, alerts>>

NoTx == [open |-> FALSE, time |-> 0, writes |-> <<>>]

NoSummary == [total_transactions |-> None, total_flagged |-> None, alerts_inserted |-> None]

NoEffect ==
    [popped |-> <<>>, upserted |-> <<>>, ledger_time |-> 0, ledger_clock |-> 0, inserted |-> {}]

Tables == {"fraud_alerts", "transactions_all"}

\* The journal of a run that is at step p without having failed on the way,
\* and of a run whose get_conn() has raised.
JournalAt(p) ==
    [path   |-> IF p = "failed"
                THEN <<"start", "failed">>
                ELSE IF p = "drain_queue"
                     THEN <<"start", "ensure_schema", "drain_queue">>
                     ELSE <<"start">>,
     closes |-> 0,
     error  |-> IF p = "failed" THEN "OperationalError" ELSE "none"]

InitRunsRest ==
    /\ conn = [r \in Runs |-> IF pc[r] = "drain_queue" THEN "open" ELSE "none"]
    /\ base = [r \in Runs |-> <<>>]
    /\ df = [r \in Runs |-> <<>>]
    /\ alerts = [r \in Runs |-> <<>>]
    /\ tx = [r \in Runs |-> NoTx]
    /\ summary = [r \in Runs |-> NoSummary]
    /\ journal = [r \in Runs |-> JournalAt(pc[r])]

InitRuns ==
    /\ qdf = [r \in Runs |-> <<>>]
    /\ i = [r \in Runs |-> 0]
    /\ effect = [r \in Runs |-> NoEffect]
    /\ InitRunsRest

\* The ingestion service asks for no token and reaches Redis; it has served
\* nothing.
InitApiOpen ==
    /\ API_TOKEN = None
    /\ GITHUB_TOKEN = FALSE
    /\ redis_up = TRUE
    /\ requests = <<>>
    /\ tasks = <<>>

InitStore ==
    /\ dbnow = 0
    /\ alert_seq = 0
    /\ transactions_all = {}
    /\ fraud_alerts = {}
    /\ latest = << >>
    /\ flagged_ever = {}

\* The runs that are to start. Without a file every run writes the 50
\* synthetic rows; that case, and that of a file that holds an id twice,
\* is explored with one run, the other being a run whose get_conn() has
\* failed. (Two runs meet batches that hold an id twice when one of them
\* has drained an id of the file.)
Starting(file) ==
    IF file.exists /\ Cardinality(Ids(file.rows)) = Len(file.rows) THEN Runs ELSE {1}

Init ==
    /\ queue = <<>>
    /\ pushed = <<>>
    /\ csv \in CsvFiles
    /\ REDIS_URL \in BOOLEAN
    /\ wall = 0
    /\ schema = {}
    /\ pc = [r \in Runs |-> IF r \in Starting(csv) THEN "start" ELSE "failed"]
    /\ InitStore
    /\ InitRuns
    /\ InitApiOpen

\* ------------------------------------------------------------ api.py
\* if API_TOKEN and x_api_token != API_TOKEN: raise HTTPException(401)
authorized(token, header) == token = None \/ header = token

\* A handler that creates its trigger task ahead of the push.
request_outcome_trigger_first(auth, push_ok) ==
    IF ~auth THEN [status |-> 401, push |-> FALSE, trigger |-> FALSE]
    ELSE IF ~push_ok THEN [status |-> 500, push |-> FALSE, trigger |-> TRUE]
    ELSE [status |-> 200, push |-> TRUE, trigger |-> TRUE]

\* The body of either handler, in its order: the token check, the push
\* (r.rpush, or pipe.execute() for a batch), whose exception ends the
\* request, then asyncio.create_task(trigger_pipeline()) and the response.
request_outcome(auth, push_ok) ==
    IF ~auth THEN [status |-> 401, push |-> FALSE, trigger |-> FALSE]
    ELSE IF ~push_ok THEN [status |-> 500, push |-> FALSE, trigger |-> FALSE]
    ELSE [status |-> 200, push |-> TRUE, trigger |-> TRUE]

RECURSIVE rpush_all(_, _)
rpush_all(q, items) ==
    IF items = <<>> THEN q ELSE rpush_all(rpush(q, Head(items)), Tail(items))

\* A request with the payloads body and the header X-API-TOKEN is served.
serve(body, header) ==
    LET out   == request_outcome(authorized(API_TOKEN, header), redis_up)
        items == [n \in 1..Len(body) |-> json_dumps(body[n])]
    IN  /\ Len(requests) < MaxReq
        /\ Len(pushed) + Len(body) <= MaxEnq
        /\ queue' = IF out.push THEN rpush_all(queue, items) ELSE queue
        /\ pushed' = IF out.push THEN pushed \o items ELSE pushed
        /\ tasks' = IF out.trigger
                    THEN Append(tasks, [request |-> Len(requests) + 1, state |-> "pending"])
                    ELSE tasks
        /\ requests' = Append(requests, [body |-> items, status |-> out.status])
        /\ UNCHANGED <<csv, REDIS_URL, wall, store_vars, pc, conn, journal, data_vars,
                       i, tx, summary, hist_vars, API_TOKEN, GITHUB_TOKEN, redis_up>>

\* POST /transactions
enqueue_transaction(payload, header) == serve(<<payload>>, header)

\* POST /transactions/batch: the pushes go in one MULTI/EXEC.
enqueue_batch(txns, header) == serve(txns, header)

\* The task of a request runs trigger_pipeline(): nothing without a
\* GITHUB_TOKEN, else the POST of the dispatch, whose failure
\* (raise_for_status, the network) ends the task with an exception nobody
\* awaits.
trigger_pipeline(k) ==
    /\ k \in 1..Len(tasks)
    /\ tasks[k].state = "pending"
    /\ \E posted \in BOOLEAN :
          tasks' = [tasks EXCEPT ![k].state =
                       IF ~GITHUB_TOKEN THEN "skipped"
                       ELSE IF posted THEN "dispatched" ELSE "failed"]
    /\ UNCHANGED <<queue, pushed, csv, REDIS_URL, wall, store_vars, pc, conn, journal,
                   data_vars, i, tx, summary, hist_vars, API_TOKEN, GITHUB_TOKEN,
                   redis_up, requests>>

\* Redis stops or starts answering the ingestion service.
redis_fault ==
    /\ redis_up' = ~redis_up
    /\ UNCHANGED <<queue, pushed, csv, REDIS_URL, wall, store_vars, pc, conn, journal,
                   data_vars, i, tx, summary, hist_vars, API_TOKEN, GITHUB_TOKEN,
                   requests, tasks>>

\* Another client of the Redis list pushes a text that json.loads refuses.
foreign_rpush(item) ==
    /\ Len(pushed) < MaxEnq
    /\ queue' = rpush(queue, item)
    /\ pushed' = Append(pushed, item)
    /\ UNCHANGED <<csv, REDIS_URL, api_vars, wall, store_vars, pc, conn, journal,
                   data_vars, i, tx, summary, hist_vars>>

\* ------------------------------------------------------------ pipeline.py
\* main() with the two writes exchanged.
main_steps_alerts_first ==
    <<"ensure_schema", "drain_queue", "load", "detect_fraud",
      "write_alerts", "write_all_transactions", "done">>

\* The order of the steps of main().
main_steps ==
    <<"ensure_schema", "drain_queue", "load", "detect_fraud",
      "write_all_transactions", "write_alerts", "done">>

\* main() without its call of detect_fraud.
StepAfter_without_detect(s) ==
    IF s = "load"
    THEN "write_all_transactions"
    ELSE main_steps[(CHOOSE n \in 1..Len(main_steps) : main_steps[n] = s) + 1]

StepAfter(s) == main_steps[(CHOOSE n \in 1..Len(main_steps) : main_steps[n] = s) + 1]

\* The step of run r returns and main() goes on; after the last step the
\* finally clause closes the connection.
Proceed(r) ==
    /\ pc' = [pc EXCEPT ![r] = StepAfter(pc[r])]
    /\ conn' = [conn EXCEPT ![r] = IF StepAfter(pc[r]) = "done" THEN "closed" ELSE @]
    /\ journal' = [journal EXCEPT
                      ![r].path = Append(@, StepAfter(pc[r])),
                      ![r].closes = IF StepAfter(pc[r]) = "done" THEN @ + 1 ELSE @]

\* The ids another run's open transaction on the same table holds locked.
LockedByOthers(r) ==
    UNION { { tx[o].writes[n].transaction_id : n \in 1..Len(tx[o].writes) } :
            o \in { x \in Runs \ {r} : pc[x] = pc[r] /\ tx[x].open } }

\* main() without its finally clause: the exception leaves the connection
\* as it is.
Raise_without_finally(r, e) ==
    /\ pc' = [pc EXCEPT ![r] = "failed"]
    /\ conn' = conn
    /\ tx' = [tx EXCEPT ![r] = NoTx]
    /\ journal' = [journal EXCEPT ![r].path = Append(@, "failed"), ![r].error = e]

\* The exception e leaves main() through finally: the open transaction is
\* rolled back and the connection closed.
Raise(r, e) ==
    /\ pc' = [pc EXCEPT ![r] = "failed"]
    /\ conn' = [conn EXCEPT ![r] = "closed"]
    /\ tx' = [tx EXCEPT ![r] = NoTx]
    /\ journal' = [journal EXCEPT ![r].path = Append(@, "failed"),
                                  ![r].closes = @ + 1,
                                  ![r].error = e]

\* conn = get_conn()
get_conn(r) ==
    /\ pc[r] = "start"
    /\ \E ok \in BOOLEAN :
          IF ok
          THEN /\ pc' = [pc EXCEPT ![r] = main_steps[1]]
               /\ conn' = [conn EXCEPT ![r] = "open"]
               /\ journal' = [journal EXCEPT ![r].path = Append(@, main_steps[1])]
          ELSE /\ pc' = [pc EXCEPT ![r] = "failed"]
               /\ conn' = conn
               /\ journal' = [journal EXCEPT ![r] = JournalAt("failed")]
    /\ UNCHANGED <<queue, pushed, csv, REDIS_URL, api_vars, wall, store_vars, data_vars, i, tx,
                   summary, hist_vars>>

\* ensure_schema(conn): CREATE TABLE IF NOT EXISTS, twice, in one transaction.
ensure_schema(r) ==
    /\ pc[r] = "ensure_schema"
    /\ schema' = schema \cup Tables
    /\ transactions_all' =
          create_table_if_not_exists(schema, "transactions_all", transactions_all)
    /\ fraud_alerts' = create_table_if_not_exists(schema, "fraud_alerts", fraud_alerts)
    /\ Proceed(r)
    /\ UNCHANGED <<queue, pushed, csv, REDIS_URL, api_vars, wall, dbnow, alert_seq,
                   data_vars, i, tx, summary, hist_vars>>

\* History: the place, in the order of the pushes, of the item at the front
\* of the list.
PoppedIndex == Len(pushed) - Len(queue) + 1

\* One iteration of the loop of drain_queue, or its return.
drain_queue(r) ==
    /\ pc[r] = "drain_queue"
    /\ IF REDIS_URL /\ i[r] < max_to_drain /\ queue # <<>>
       THEN /\ queue' = lpop_rest(queue)
            /\ effect' = [effect EXCEPT ![r].popped = Append(@, PoppedIndex)]
            /\ IF json_ok(lpop_item(queue))
               THEN /\ qdf' = [qdf EXCEPT ![r] = Append(@, json_loads(lpop_item(queue)))]
                    /\ i' = [i EXCEPT ![r] = @ + 1]
                    /\ UNCHANGED <<pc, conn, tx, journal>>
               ELSE /\ Raise(r, "JSONDecodeError")
                    /\ UNCHANGED <<qdf, i>>
       ELSE /\ Proceed(r)
            /\ i' = [i EXCEPT ![r] = 0]
            /\ UNCHANGED <<queue, qdf, tx, effect>>
    /\ UNCHANGED <<pushed, csv, REDIS_URL, api_vars, wall, store_vars, base, df, alerts,
                   summary, latest, flagged_ever>>

\* base = load_file_or_synthetic(); df = pd.concat(...); the first count.
load(r) ==
    /\ pc[r] = "load"
    /\ IF load_raises(csv)
       THEN /\ Raise(r, "ValueError")
            /\ UNCHANGED <<wall, base, df, summary>>
       ELSE /\ \E t \in wall..(IF csv.exists THEN wall ELSE MaxWall) :
                 /\ wall' = t
                 /\ base' = [base EXCEPT ![r] = load_file_or_synthetic(csv, t)]
                 /\ df' = [df EXCEPT ![r] = concat(qdf[r], load_file_or_synthetic(csv, t))]
                 /\ summary' = [summary EXCEPT ![r].total_transactions =
                                   Some(Len(concat(qdf[r], load_file_or_synthetic(csv, t))))]
            /\ Proceed(r)
            /\ UNCHANGED tx
    /\ UNCHANGED <<queue, pushed, csv, REDIS_URL, api_vars, store_vars, qdf, alerts, i, hist_vars>>

\* alerts = detect_fraud(df); the second count.
classify(r) ==
    /\ pc[r] = "detect_fraud"
    /\ alerts' = [alerts EXCEPT ![r] = detect_fraud(df[r])]
    /\ summary' = [summary EXCEPT ![r].total_flagged = Some(Len(detect_fraud(df[r])))]
    /\ Proceed(r)
    /\ UNCHANGED <<queue, pushed, csv, REDIS_URL, api_vars, wall, store_vars, qdf, base, df,
                   i, tx, hist_vars>>

\* BEGIN, sent ahead of the first statement of a batch: CURRENT_TIMESTAMP
\* is the time of it for every statement of the transaction.
Begin(r) ==
    /\ tx' = [tx EXCEPT ![r] = [open |-> TRUE, time |-> dbnow + 1, writes |-> <<>>]]
    /\ dbnow' = dbnow + 1

\* One statement of the batch of write_all_transactions (or the BEGIN ahead
\* of the first): it waits while another transaction holds the row of its id.
write_all_statement(r) ==
    /\ pc[r] = "write_all_transactions"
    /\ i[r] < Len(ledger_rows(df[r], alerts[r]))
    /\ IF ~tx[r].open
       THEN /\ Begin(r)
            /\ i' = i
       ELSE /\ LET row == ledger_rows(df[r], alerts[r])[i[r] + 1]
               IN  /\ row.transaction_id \notin LockedByOthers(r)
                   /\ tx' = [tx EXCEPT ![r].writes = Append(@, row)]
            /\ i' = [i EXCEPT ![r] = @ + 1]
            /\ dbnow' = dbnow
    /\ UNCHANGED <<queue, pushed, csv, REDIS_URL, api_vars, wall, alert_seq, schema,
                   transactions_all, fraud_alerts, pc, conn, journal, data_vars,
                   summary, hist_vars>>

\* History of a commit of the ledger batch of run r.
LastAt(d, tid) ==
    CHOOSE n \in 1..Len(d) :
        /\ d[n].transaction_id = tid
        /\ \A m \in (n + 1)..Len(d) : d[m].transaction_id # tid

Occurrence(d, tid) ==
    [txn     |-> d[LastAt(d, tid)],
     flagged |-> \E n \in 1..Len(d) : d[n].transaction_id = tid /\ d[n].amount >= Threshold]

\* The end of write_all_transactions: the commit of the batch, or the
\* return at once for an empty working set.
write_all_return(r) ==
    /\ pc[r] = "write_all_transactions"
    /\ i[r] = Len(ledger_rows(df[r], alerts[r]))
    /\ transactions_all' = upsert_all(transactions_all, tx[r].writes, tx[r].time)
    /\ tx' = [tx EXCEPT ![r] = NoTx]
    /\ latest' = [t \in DOMAIN latest \cup Ids(df[r]) |->
                     IF t \in Ids(df[r]) THEN Occurrence(df[r], t) ELSE latest[t]]
    /\ flagged_ever' = flagged_ever \cup
          { w.transaction_id : w \in { x \in Range(tx[r].writes) : x.is_flagged } }
    /\ effect' = [effect EXCEPT ![r].upserted = tx[r].writes,
                                 ![r].ledger_time = tx[r].time,
                                 ![r].ledger_clock = dbnow]
    /\ Proceed(r)
    /\ i' = [i EXCEPT ![r] = 0]
    /\ UNCHANGED <<queue, pushed, csv, REDIS_URL, api_vars, wall, dbnow, alert_seq, schema,
                   fraud_alerts, data_vars, summary>>

\* One statement of the batch of write_alerts (or the BEGIN ahead of the
\* first): it waits while another transaction holds an uncommitted row of
\* its id, takes the next alert_id, and inserts unless a row of its id is
\* there.
write_alerts_statement(r) ==
    /\ pc[r] = "write_alerts"
    /\ i[r] < Len(alerts[r])
    /\ IF ~tx[r].open
       THEN /\ Begin(r)
            /\ UNCHANGED <<i, alert_seq>>
       ELSE /\ LET a == alerts[r][i[r] + 1]
               IN  /\ a.transaction_id \notin LockedByOthers(r)
                   /\ tx' = [tx EXCEPT ![r].writes =
                                IF alert_conflict(fraud_alerts \cup Range(tx[r].writes), a)
                                THEN @
                                ELSE Append(@, alert_row(a, alert_seq + 1, tx[r].time))]
            /\ alert_seq' = alert_seq + 1
            /\ i' = [i EXCEPT ![r] = @ + 1]
            /\ dbnow' = dbnow
    /\ UNCHANGED <<queue, pushed, csv, REDIS_URL, api_vars, wall, schema, transactions_all,
                   fraud_alerts, pc, conn, journal, data_vars, summary, hist_vars>>

\* return len(alerts), after the commit of a batch that is not empty.
write_alerts_count(al) == Len(al)

\* The end of write_alerts: the commit (or the return at once when there is
\* no candidate) and the third count.
write_alerts_return(r) ==
    /\ pc[r] = "write_alerts"
    /\ i[r] = Len(alerts[r])
    /\ fraud_alerts' = fraud_alerts \cup Range(tx[r].writes)
    /\ tx' = [tx EXCEPT ![r] = NoTx]
    /\ effect' = [effect EXCEPT ![r].inserted = Range(tx[r].writes)]
    /\ summary' = [summary EXCEPT ![r].alerts_inserted = Some(write_alerts_count(alerts[r]))]
    /\ Proceed(r)
    /\ i' = [i EXCEPT ![r] = 0]
    /\ UNCHANGED <<queue, pushed, csv, REDIS_URL, api_vars, wall, dbnow, alert_seq, schema,
                   transactions_all, data_vars, latest, flagged_ever>>

Working(r) == pc[r] \notin {"start", "done", "failed"}

\* A connection in autocommit mode: what a statement wrote stays written.
rollback_autocommit(writes) == writes

\* with conn: an exception inside the block rolls the transaction back, and
\* none of the rows its statements wrote reaches the table.
rollback(writes) == <<>>

\* The tables after the exception has left the with block of run r.
Rollback(r) ==
    /\ transactions_all' =
          IF pc[r] = "write_all_transactions"
          THEN upsert_all(transactions_all, rollback(tx[r].writes), tx[r].time)
          ELSE transactions_all
    /\ fraud_alerts' =
          IF pc[r] = "write_alerts"
          THEN fraud_alerts \cup Range(rollback(tx[r].writes))
          ELSE fraud_alerts

\* A step of main() raises (the store, the queue or the host fails). A
\* process killed at that step leaves the store as the raise does: its
\* open transaction is rolled back.
fail(r) ==
    /\ Working(r)
    /\ Raise(r, "Exception")
    /\ Rollback(r)
    /\ UNCHANGED <<queue, pushed, csv, REDIS_URL, api_vars, wall, dbnow, alert_seq, schema,
                   data_vars, i, summary, hist_vars>>

\* The rows of the batch run r is sending.
Batch(r) ==
    IF pc[r] = "write_all_transactions" THEN ledger_rows(df[r], alerts[r]) ELSE alerts[r]

\* The next statement of run r waits for a row lock.
Waiting(r) ==
    /\ pc[r] \in {"write_all_transactions", "write_alerts"}
    /\ tx[r].open
    /\ i[r] < Len(Batch(r))
    /\ Batch(r)[i[r] + 1].transaction_id \in LockedByOthers(r)

\* The runs whose open transaction holds the lock run r waits for.
Holders(r) ==
    { o \in Runs \ {r} :
         /\ pc[o] = pc[r] /\ tx[o].open
         /\ \E n \in 1..Len(tx[o].writes) :
               tx[o].writes[n].transaction_id = Batch(r)[i[r] + 1].transaction_id }

\* Run r and a run it waits for wait for each other.
Deadlocked(r) == Waiting(r) /\ \E o \in Holders(r) : Waiting(o) /\ r \in Holders(o)

\* The store finds the transaction of run r in a cycle of lock waits and
\* aborts it: the statement of execute_batch raises.
deadlock_detected(r) ==
    /\ Deadlocked(r)
    /\ Raise(r, "DeadlockDetected")
    /\ Rollback(r)
    /\ UNCHANGED <<queue, pushed, csv, REDIS_URL, api_vars, wall, dbnow, alert_seq, schema,
                   data_vars, i, summary, hist_vars>>

Next ==
    \/ \E p \in Payloads : enqueue_transaction(p, None)
    \/ \E r \in Runs : get_conn(r)
    \/ \E r \in Runs : ensure_schema(r)
    \/ \E r \in Runs : drain_queue(r)
    \/ \E r \in Runs : load(r)
    \/ \E r \in Runs : classify(r)
    \/ \E r \in Runs : write_all_statement(r)
    \/ \E r \in Runs : write_all_return(r)
    \/ \E r \in Runs : write_alerts_statement(r)
    \/ \E r \in Runs : write_alerts_return(r)
    \/ \E r \in Runs : fail(r)
    \/ \E r \in Runs : deadlock_detected(r)

Spec == Init /\ [][Next]_vars

\* ------------------------------------------- collections that cannot be read
\* The runs on a file that holds no row or lacks the required columns, and
\* a queue another client pushes items to that are no JSON documents.
InitCollect ==
    /\ queue = <<>>
    /\ pushed = <<>>
    /\ csv \in { f \in CsvFiles : f.exists /\ f.rows = <<>> }
    /\ REDIS_URL = TRUE
    /\ wall = 0
    /\ schema = {}
    /\ pc = [r \in Runs |-> "start"]
    /\ InitStore
    /\ InitRuns
    /\ InitApiOpen

\* With the one id of Payloads in the batches no two runs wait for each
\* other: the store has no cycle to find.
NextCollect ==
    \/ \E p \in Payloads : enqueue_transaction(p, None)
    \/ foreign_rpush(truncated(CHOOSE p \in Payloads : p.amount >= Threshold))
    \/ \E r \in Runs : get_conn(r)
    \/ \E r \in Runs : ensure_schema(r)
    \/ \E r \in Runs : drain_queue(r)
    \/ \E r \in Runs : load(r)
    \/ \E r \in Runs : classify(r)
    \/ \E r \in Runs : write_all_statement(r)
    \/ \E r \in Runs : write_all_return(r)
    \/ \E r \in Runs : write_alerts_statement(r)
    \/ \E r \in Runs : write_alerts_return(r)
    \/ \E r \in Runs : fail(r)

SpecCollect == InitCollect /\ [][NextCollect]_vars

\* ---------------------------------------- the ingestion service, on its own
\* The service with or without an API_TOKEN and a GITHUB_TOKEN, Redis
\* answering it or not; no run of the pipeline has started.
InitApi ==
    /\ queue = <<>>
    /\ pushed = <<>>
    /\ csv \in { f \in CsvFiles : ~f.exists }
    /\ REDIS_URL = TRUE
    /\ wall = 0
    /\ schema = {}
    /\ pc = [r \in Runs |-> "start"]
    /\ InitStore
    /\ InitRuns
    /\ API_TOKEN \in {None, Some("secret")}
    /\ GITHUB_TOKEN \in BOOLEAN
    /\ redis_up \in BOOLEAN
    /\ requests = <<>>
    /\ tasks = <<>>

NextApi ==
    \/ \E p \in Payloads, h \in Headers : enqueue_transaction(p, h)
    \/ \E b \in Batches, h \in Headers : enqueue_batch(b, h)
    \/ \E k \in 1..MaxReq : trigger_pipeline(k)
    \/ redis_fault

SpecApi == InitApi /\ [][NextApi]_vars

\* --------------------------------------------------- the drain, on its own
\* One run drains a queue that held up to max_to_drain + QueueOver items
\* when the run began, and nobody else touches the queue. The run is taken
\* up at the start of its loop or, on a long queue, within the last
\* DrainTail iterations the loop can make: the rows it has popped are in
\* qdf and the items it has not are in the queue.
DrainSizes ==
    {0, 1, 2, 3, max_to_drain - 1, max_to_drain, max_to_drain + 1, max_to_drain + QueueOver}

DrainStarts(n) ==
    IF n < max_to_drain - DrainTail
    THEN {0}
    ELSE { k \in (max_to_drain - DrainTail)..max_to_drain : k <= n }

DrainPayload(n) ==
    [transaction_id |-> TXN(n), amount |-> 100 * n, location |-> Some("USA"), device |-> Some("Web")]

InitDrain ==
    /\ \E n \in DrainSizes : pushed = [j \in 1..n |-> json_dumps(DrainPayload(j))]
    /\ \E k \in DrainStarts(Len(pushed)) :
          /\ i = [r \in Runs |-> IF r = 1 THEN k ELSE 0]
          /\ qdf = [r \in Runs |-> IF r = 1 THEN [j \in 1..k |-> DrainPayload(j)] ELSE <<>>]
          /\ queue = [j \in 1..(Len(pushed) - k) |-> pushed[k + j]]
          /\ effect = [r \in Runs |->
                          IF r = 1 THEN [NoEffect EXCEPT !.popped = [j \in 1..k |-> j]]
                                   ELSE NoEffect]
    /\ csv \in { f \in CsvFiles : f.exists /\ f.columns_ok /\ f.rows = <<>> }
    /\ REDIS_URL = TRUE
    /\ wall = 0
    /\ schema = Tables
    /\ pc = [r \in Runs |-> IF r = 1 THEN "drain_queue" ELSE "failed"]
    /\ InitStore
    /\ InitRunsRest
    /\ InitApiOpen

NextDrain == \E r \in Runs : drain_queue(r)

SpecDrain == InitDrain /\ [][NextDrain]_vars

\* ------------------------------------------- runs on a store written before
\* The runs start on the tables an earlier run has left: that run's working
\* set was PriorSet and its transactions began at time 0.
PriorSet == <<CsvRow(2, 999999), CsvRow(1, 1000000)>>

PriorLedger == upsert_all({}, ledger_rows(PriorSet, detect_fraud(PriorSet)), 0)

PriorAlerts ==
    { alert_row(detect_fraud(PriorSet)[n], n, 0) : n \in 1..Len(detect_fraud(PriorSet)) }

InitSchema ==
    /\ queue = <<>>
    /\ pushed = <<>>
    /\ csv \in { f \in CsvFiles : f.rows = PriorSet }
    /\ REDIS_URL = TRUE
    /\ wall = 0
    /\ schema = Tables
    /\ pc = [r \in Runs |-> "start"]
    /\ dbnow = 0
    /\ alert_seq = Len(detect_fraud(PriorSet))
    /\ transactions_all = PriorLedger
    /\ fraud_alerts = PriorAlerts
    /\ latest = [t \in Ids(PriorSet) |-> Occurrence(PriorSet, t)]
    /\ flagged_ever = { x.transaction_id : x \in { y \in PriorLedger : y.is_flagged } }
    /\ InitRuns
    /\ InitApiOpen

SpecSchema == InitSchema /\ [][Next]_vars

\* ------------------------------------------------------------------ claims
AlertIds == { a.transaction_id : a \in fraud_alerts }

LedgerIds == { x.transaction_id : x \in transactions_all }

AfterLoad == {"detect_fraud", "write_all_transactions", "write_alerts", "done"}

AfterDetect == {"write_all_transactions", "write_alerts", "done"}

\* The step is one of run r.
StepOf(r) == pc'[r] # pc[r] \/ i'[r] # i[r] \/ tx'[r] # tx[r]

\* The step is the commit of the ledger batch of run r.
LedgerCommit(r) ==
    /\ pc[r] = "write_all_transactions"
    /\ pc'[r] \notin {"write_all_transactions", "failed"}

\* C1: in every reachable state, also after runs that failed between two
\* steps and under interleaved runs, every transaction_id of fraud_alerts is
\* a transaction_id of transactions_all.
C1_AlertsWithinLedger == AlertIds \subseteq LedgerIds

\* A run committed its ledger batch and then failed, while the alert table
\* holds a row.
C1_Witness ==
    /\ fraud_alerts # {}
    /\ \E r \in Runs : pc[r] = "failed" /\ effect[r].upserted # <<>>

\* A ledger row without its processed_at.
NoTime(x) ==
    [transaction_id |-> x.transaction_id, amount |-> x.amount, location |-> x.location,
     device |-> x.device, is_flagged |-> x.is_flagged, risk_score |-> x.risk_score,
     flagged_reason |-> x.flagged_reason]

C2_OneRowPerId ==
    \A x, y \in transactions_all : x.transaction_id = y.transaction_id => x = y

\* Run r commits the batch that run o committed before r's transaction began.
C2_SecondRun(r, o) ==
    /\ LedgerCommit(r)
    /\ tx[r].writes # <<>>
    /\ effect[o].upserted = tx[r].writes
    /\ effect[o].ledger_clock < tx[r].time

C2_SameRowsLaterTime(r) ==
    /\ { NoTime(x) : x \in transactions_all' } = { NoTime(x) : x \in transactions_all }
    /\ Cardinality(transactions_all') = Cardinality(transactions_all)
    /\ \A x \in transactions_all' :
          IF x.transaction_id \in Ids(tx[r].writes)
          THEN /\ x.processed_at = tx[r].time
               /\ \A y \in transactions_all :
                     y.transaction_id = x.transaction_id => y.processed_at < x.processed_at
          ELSE x \in transactions_all

\* C2: the ledger never holds two rows of one transaction_id, and a second
\* write_all_transactions with the working set of the first leaves the same
\* rows with the same amount, location, device and flags, the processed_at
\* of every touched row advancing to the time of the second.
C2_IdempotentUpsert ==
    /\ []C2_OneRowPerId
    /\ [][\A r \in Runs : \A o \in Runs \ {r} :
             C2_SecondRun(r, o) => C2_SameRowsLaterTime(r)]_vars

\* Both runs have committed the same batch, one after the other.
C2_Witness ==
    \E r \in Runs : \E o \in Runs \ {r} :
        /\ pc[r] \in {"write_alerts", "done"}
        /\ pc[o] \in {"write_alerts", "done"}
        /\ effect[r].upserted # <<>>
        /\ effect[r].upserted = effect[o].upserted
        /\ effect[o].ledger_clock < effect[r].ledger_time

C3_OneAlertPerId ==
    \A x, y \in fraud_alerts : x.transaction_id = y.transaction_id => x = y

\* C3: the alert table holds at most one row of a transaction_id, and a row
\* that is there stays there with its amount, risk_score, flagged_reason and
\* created_at, whatever a later run makes of the same transaction_id.
C3_AlertInsertOnce ==
    /\ []C3_OneAlertPerId
    /\ [][fraud_alerts \subseteq fraud_alerts']_vars

\* An alert row stands while a later run has written the ledger row of its
\* id with another amount and not flagged.
C3_Witness ==
    \E a \in fraud_alerts : \E x \in transactions_all :
        /\ x.transaction_id = a.transaction_id
        /\ ~x.is_flagged
        /\ x.amount # a.amount
        /\ x.processed_at > a.created_at

\* C4 as stated: a transaction_id has an alert row exactly when a ledger row
\* was committed for it with is_flagged = true.
C4_AlertIffFlagged == AlertIds = flagged_ever

\* C4, amended: every alert row is of a transaction_id for which a ledger
\* row was committed with is_flagged = true, and once a run is done every
\* transaction_id it committed as flagged has an alert row.
C4_AlertOnlyIfFlaggedAndAfterDone ==
    /\ AlertIds \subseteq flagged_ever
    /\ \A r \in Runs :
          pc[r] = "done" =>
              \A n \in 1..Len(effect[r].upserted) :
                  effect[r].upserted[n].is_flagged =>
                      effect[r].upserted[n].transaction_id \in AlertIds

\* A run is done that committed a flagged ledger row, and another run failed
\* after its own flagged ledger rows were committed.
C4_Witness ==
    \E r \in Runs : \E o \in Runs \ {r} :
        /\ pc[r] = "done"
        /\ \E n \in 1..Len(effect[r].upserted) : effect[r].upserted[n].is_flagged
        /\ pc[o] = "failed"
        /\ \E n \in 1..Len(effect[o].upserted) : effect[o].upserted[n].is_flagged

\* The candidates of a working set, row by row: one for each row of
\* 10000.00 or more, none for a row below.
RECURSIVE ExpectedCandidates(_)
ExpectedCandidates(d) ==
    IF d = <<>> THEN <<>>
    ELSE (IF Head(d).amount >= 1000000
          THEN << [transaction_id |-> Head(d).transaction_id, amount |-> Head(d).amount,
                   risk_score |-> 90, flagged_reason |-> "high_amount"] >>
          ELSE <<>>) \o ExpectedCandidates(Tail(d))

\* C5: detect_fraud gives one candidate for each transaction of amount
\* >= 10000 and none for the others (10000.00 flagged, 9999.99 not), with
\* the id and amount of the transaction, risk_score 90 and "high_amount",
\* in the order of the working set, which it leaves as it is.
C5_DetectFraud ==
    /\ [](\A r \in Runs : pc[r] \in AfterDetect => alerts[r] = ExpectedCandidates(df[r]))
    /\ [][\A r \in Runs : pc[r] = "detect_fraud" => df'[r] = df[r]]_vars

\* A classified working set holds a row of 9999.99 and one of 10000.00.
C5_Witness ==
    \E r \in Runs :
        /\ pc[r] \in AfterDetect
        /\ \E n, m \in 1..Len(df[r]) : df[r][n].amount = 999999 /\ df[r][m].amount = 1000000
        /\ Len(alerts[r]) = 1

\* The payloads of the items n..m of everything pushed.
Loaded(n, m) == [j \in 1..(m - n + 1) |-> json_loads(pushed[n + j - 1])]

\* C6: on a queue of n items that nobody else touches, drain_queue removes
\* the first min(n, 5000) items, returns them in the order they were pushed
\* and leaves the others in the queue in their order; while it runs, what
\* it holds and what the queue holds are the two parts of what was pushed.
C6_DrainExact ==
    \A r \in Runs :
        /\ pc[r] = "drain_queue" =>
              /\ i[r] <= 5000
              /\ i[r] = Len(qdf[r])
              /\ qdf[r] = Loaded(1, i[r])
              /\ queue = SubSeq(pushed, i[r] + 1, Len(pushed))
        /\ pc[r] = "load" =>
              /\ Len(qdf[r]) = Min(Len(pushed), 5000)
              /\ qdf[r] = Loaded(1, Min(Len(pushed), 5000))
              /\ queue = SubSeq(pushed, Min(Len(pushed), 5000) + 1, Len(pushed))
              /\ Len(queue) = Len(pushed) - Min(Len(pushed), 5000)

\* The drain of a queue of more than 5000 items has returned with 5000 of
\* them, and the others are queued.
C6_Witness ==
    \E r \in Runs :
        /\ pc[r] = "load"
        /\ Len(pushed) = 5000 + QueueOver
        /\ Len(qdf[r]) = 5000
        /\ Len(queue) = QueueOver

\* The secondary source of a run that loaded at second t.
Secondary(t) == IF csv.exists THEN csv.rows ELSE [n \in 1..50 |-> synthetic_row(t, n)]

\* C7: the working set is the drained rows followed by the rows of the
\* secondary source, each in its order and none dropped: its length is the
\* sum of the two lengths, and an id of both sources occurs in it twice.
C7_MergeOrder ==
    \A r \in Runs :
        pc[r] \in AfterLoad =>
            /\ \E t \in 0..wall : base[r] = Secondary(t)
            /\ Len(df[r]) = Len(qdf[r]) + Len(base[r])
            /\ \A n \in 1..Len(qdf[r]) : df[r][n] = qdf[r][n]
            /\ \A n \in 1..Len(base[r]) : df[r][Len(qdf[r]) + n] = base[r][n]

\* A working set holds a drained row and a file row of the same id.
C7_Witness ==
    \E r \in Runs :
        /\ pc[r] \in AfterLoad
        /\ csv.exists
        /\ \E n \in 1..Len(qdf[r]) : \E m \in 1..Len(base[r]) :
              /\ qdf[r][n].transaction_id = base[r][m].transaction_id
              /\ df[r][n] = qdf[r][n]
              /\ df[r][Len(qdf[r]) + m] = base[r][m]

\* C8: the ledger row of a transaction_id holds the amount, location and
\* device of the occurrence of that id committed last (runs in the order of
\* their commits, a working set in its order), and the flags that run gave
\* the id: flagged, with 90 and "high_amount", when the id is among the
\* candidates of that run.
C8_LastWriteWins ==
    \A t \in DOMAIN latest :
        \E x \in transactions_all :
            /\ x.transaction_id = t
            /\ x.amount = latest[t].txn.amount
            /\ x.location = latest[t].txn.location
            /\ x.device = latest[t].txn.device
            /\ x.is_flagged = latest[t].flagged
            /\ x.risk_score = (IF latest[t].flagged THEN Some(90) ELSE None)
            /\ x.flagged_reason = (IF latest[t].flagged THEN Some("high_amount") ELSE None)
            /\ \A y \in transactions_all : y.transaction_id = t => y = x

\* Two runs have committed the same id with different amounts.
C8_Witness ==
    \E r \in Runs : \E o \in Runs \ {r} :
        \E n \in 1..Len(effect[r].upserted) : \E m \in 1..Len(effect[o].upserted) :
            /\ effect[r].upserted[n].transaction_id = effect[o].upserted[m].transaction_id
            /\ effect[r].upserted[n].amount # effect[o].upserted[m].amount
            /\ effect[o].ledger_clock < effect[r].ledger_time

\* C9 as stated: a run that is done has reported the length of its working
\* set, the number of its candidates and the number of rows it added to the
\* alert table.
C9_SummaryCounts ==
    \A r \in Runs :
        pc[r] = "done" =>
            /\ summary[r].total_transactions = Some(Len(df[r]))
            /\ summary[r].total_flagged = Some(Len(alerts[r]))
            /\ summary[r].alerts_inserted = Some(Cardinality(effect[r].inserted))

\* C10 as stated: a run that drained nothing and found no file ends with
\* an empty working set, nothing written and three zero counts.
C10_EmptyRunWithoutFile ==
    \A r \in Runs :
        /\ (pc[r] \in AfterLoad /\ qdf[r] = <<>> /\ ~csv.exists) => df[r] = <<>>
        /\ (pc[r] = "done" /\ qdf[r] = <<>> /\ ~csv.exists) =>
              /\ effect[r].upserted = <<>>
              /\ effect[r].inserted = {}
              /\ summary[r] = [total_transactions |-> Some(0), total_flagged |-> Some(0),
                               alerts_inserted |-> Some(0)]

C10_EmptyFileRun ==
    \A r \in Runs :
        /\ (pc[r] \in AfterLoad /\ ~csv.exists) => Len(base[r]) = 50 /\ df[r] # <<>>
        /\ (pc[r] \in AfterLoad /\ qdf[r] = <<>> /\ csv.exists /\ csv.rows = <<>>) =>
              df[r] = <<>>
        /\ (pc[r] = "done" /\ df[r] = <<>>) =>
              /\ effect[r].upserted = <<>>
              /\ effect[r].inserted = {}
              /\ summary[r] = [total_transactions |-> Some(0), total_flagged |-> Some(0),
                               alerts_inserted |-> Some(0)]

\* C10, amended: there is no gate, a run that finds no file takes the 50
\* synthetic rows as its secondary source. The run with an empty working
\* set is the one that drained nothing and found a file without rows: no
\* step of it changes a row of either table, it reports three zero counts
\* and it ends done.
C10_EmptyRun ==
    /\ []C10_EmptyFileRun
    /\ [][\A r \in Runs :
             (StepOf(r) /\ df'[r] = <<>>) =>
                 UNCHANGED <<transactions_all, fraud_alerts>>]_vars

\* A run is done that drained nothing from a configured queue and found a
\* file without rows, while the other run has written rows.
C10_Witness ==
    \E r \in Runs :
        /\ pc[r] = "done"
        /\ REDIS_URL
        /\ qdf[r] = <<>>
        /\ csv.exists
        /\ df[r] = <<>>
        /\ summary[r].total_transactions = Some(0)
        /\ transactions_all # {}

\* Run r has passed get_conn(): it holds, or has held, a connection.
Acquired(r) == Len(journal[r].path) >= 2 /\ journal[r].path[2] = main_steps[1]

Ended(r) == pc[r] \in {"done", "failed"}

\* C11: a run that has acquired its connection holds it open, never closed
\* before, for as long as it works, and has it closed, by exactly one
\* conn.close(), once it has ended, in "done" as in "failed" and whatever
\* the step it failed at; a run that acquired none closes none.
C11_ConnectionReleased ==
    \A r \in Runs :
        /\ Working(r) => Acquired(r) /\ conn[r] = "open" /\ journal[r].closes = 0
        /\ Ended(r) /\ Acquired(r) => conn[r] = "closed" /\ journal[r].closes = 1
        /\ ~Acquired(r) => conn[r] = "none" /\ journal[r].closes = 0

C11_Witness ==
    \E r, o \in Runs :
        /\ pc[r] = "done" /\ conn[r] = "closed"
        /\ pc[o] = "failed" /\ Acquired(o) /\ conn[o] = "closed"
        /\ journal[o].path[Len(journal[o].path) - 1] = "write_alerts"

\* The step run r was at when it failed.
FailedAt(r) == journal[r].path[Len(journal[r].path) - 1]

\* Run r has popped an item that does not deserialize, or has gone through
\* the load of a file without the required columns.
BadCollect(r) ==
    \/ \E n \in Range(effect[r].popped), p \in Payloads : pushed[n] = truncated(p)
    \/ load_raises(csv) /\ \E n \in 1..Len(journal[r].path) - 1 : journal[r].path[n] = "load"

NoWrite(r) == effect[r].upserted = <<>> /\ effect[r].inserted = {}

\* C12: a run whose collection meets an item that does not deserialize, or a
\* file without transaction_id or amount, has failed, at that step of the
\* collection (of the item or the file, unless the load broke off before it
\* read the file), with no working set, no count and no open transaction, and
\* has committed no ledger row and no alert row: when no other run has
\* written either, the two tables are as empty as they were at the start.
C12_FailedCollectWritesNothing ==
    \A r \in Runs :
        BadCollect(r) =>
            /\ pc[r] = "failed"
            /\ FailedAt(r) \in {"drain_queue", "load"}
            /\ journal[r].error \in
                  IF FailedAt(r) = "drain_queue" THEN {"JSONDecodeError"}
                                                 ELSE {"ValueError", "Exception"}
            /\ df[r] = <<>> /\ alerts[r] = <<>> /\ summary[r] = NoSummary
            /\ ~tx[r].open
            /\ NoWrite(r)
            /\ (\A o \in Runs \ {r} : NoWrite(o)) =>
                  transactions_all = {} /\ fraud_alerts = {}

C12_Witness ==
    \E r, o \in Runs :
        /\ pc[r] = "failed" /\ journal[r].error = "JSONDecodeError"
        /\ Len(effect[r].popped) = 2
        /\ pc[o] = "failed" /\ journal[o].error = "ValueError"
        /\ transactions_all = {}

\* The pops, of any run, that returned the item pushed n-th.
PopsOf(n) == { <<r, m>> \in Runs \X (1..Len(pushed)) :
                  m <= Len(effect[r].popped) /\ effect[r].popped[m] = n }

\* C13: the queue holds, in the order of their pushes, the items no run has
\* popped; every other item has been returned by exactly one pop of exactly
\* one run, whatever became of that run; and the items a run popped before
\* it failed without a ledger commit are in no ledger row of its making: if
\* no other run has committed a ledger batch the ledger is empty.
C13_AtMostOnce ==
    LET n == Len(pushed) - Len(queue)
    IN  /\ n >= 0
        /\ queue = SubSeq(pushed, n + 1, Len(pushed))
        /\ \A k \in 1..Len(pushed) : Cardinality(PopsOf(k)) = IF k <= n THEN 1 ELSE 0
        /\ \A r \in Runs :
              /\ pc[r] # "failed" =>
                    qdf[r] = [m \in 1..Len(effect[r].popped) |->
                                 json_loads(pushed[effect[r].popped[m]])]
              /\ pc[r] = "failed" /\ effect[r].popped # <<>> /\ effect[r].upserted = <<>>
                 /\ (\A o \in Runs \ {r} : effect[o].upserted = <<>>)
                    => transactions_all = {}

C13_Witness ==
    \E r, o \in Runs :
        /\ pc[r] = "failed" /\ Len(effect[r].popped) = 1 /\ effect[r].upserted = <<>>
        /\ json_ok(pushed[effect[r].popped[1]])
        /\ pc[o] = "done" /\ Len(effect[o].popped) = 1
        /\ queue = <<>>
        /\ transactions_all # {}
        /\ \A x \in transactions_all :
              x.amount # json_loads(pushed[effect[r].popped[1]]).amount

\* The ledger row x is, column by column, the row w of a batch of time t.
WrittenAs(x, w, t) ==
    /\ x.transaction_id = w.transaction_id
    /\ x.amount = w.amount
    /\ x.location = w.location
    /\ x.device = w.device
    /\ x.processed_at = t
    /\ x.is_flagged = w.is_flagged
    /\ x.risk_score = w.risk_score
    /\ x.flagged_reason = w.flagged_reason

\* The ledger transactions of runs r and o were open at the same time: o
\* began after r and before the commit of r.
Overlapped(r, o) ==
    /\ effect[r].upserted # <<>> /\ effect[o].upserted # <<>>
    /\ effect[r].ledger_time < effect[o].ledger_time
    /\ effect[o].ledger_time <= effect[r].ledger_clock

\* C14: whatever the overlap of the runs that persist an id, the ledger
\* holds one row of the id, which is in every column a row one of the runs
\* wrote in its batch, with the time of that batch; the alert table holds at
\* most one row of the id; and the only error a statement of a batch ends
\* with on account of another run is the store's deadlock abort, never a
\* duplicate key.
C14_ConcurrentPersist ==
    /\ \A x, y \in transactions_all : x.transaction_id = y.transaction_id => x = y
    /\ \A x \in transactions_all :
          \E r \in Runs : \E n \in 1..Len(effect[r].upserted) :
              WrittenAs(x, effect[r].upserted[n], effect[r].ledger_time)
    /\ \A a, b \in fraud_alerts : a.transaction_id = b.transaction_id => a = b
    /\ \A r \in Runs :
          /\ journal[r].error \in
                {"none", "OperationalError", "JSONDecodeError", "ValueError",
                 "Exception", "DeadlockDetected"}
          /\ journal[r].error = "DeadlockDetected" =>
                FailedAt(r) \in {"write_all_transactions", "write_alerts"}

C14_Witness ==
    \E r, o \in Runs :
        /\ Overlapped(r, o)
        /\ pc[r] = "done" /\ pc[o] = "done"
        /\ \E n \in 1..Len(effect[r].upserted), m \in 1..Len(effect[o].upserted) :
              /\ effect[r].upserted[n].transaction_id = effect[o].upserted[m].transaction_id
              /\ effect[r].upserted[n].location # effect[o].upserted[m].location
              /\ effect[r].upserted[n].transaction_id \in AlertIds

\* C15: on a store where both tables exist and hold the rows of an earlier
\* run, the tables go on existing, and until a run commits a batch of its
\* own (every run having called ensure_schema first) the ledger rows and the
\* alert rows are the earlier run's, unchanged in every column; afterwards
\* the earlier ids are still in the ledger and the earlier alerts, which no
\* statement updates, are still in the alert table.
C15_EnsureSchemaIdempotent ==
    /\ schema = Tables
    /\ (\A r \in Runs : NoWrite(r)) =>
          transactions_all = PriorLedger /\ fraud_alerts = PriorAlerts
    /\ { x.transaction_id : x \in PriorLedger } \subseteq LedgerIds
    /\ PriorAlerts \subseteq fraud_alerts

C15_Witness ==
    /\ \A r \in Runs : pc[r] = "write_all_transactions" /\ NoWrite(r)
    /\ transactions_all = PriorLedger /\ PriorLedger # {}
    /\ fraud_alerts = PriorAlerts /\ PriorAlerts # {}

\* The state of the run's life cycle a step of main() belongs to.
StateOf(p) ==
    CASE p = "start" -> "CONNECTING"
      [] p = "ensure_schema" -> "SCHEMA_READY"
      [] p \in {"drain_queue", "load"} -> "COLLECTED"
      [] p = "detect_fraud" -> "CLASSIFIED"
      [] p \in {"write_all_transactions", "write_alerts"} -> "PERSISTED"
      [] p = "done" -> "DONE"
      [] p = "failed" -> "FAILED"

StateOrder == <<"CONNECTING", "SCHEMA_READY", "COLLECTED", "CLASSIFIED", "PERSISTED", "DONE">>

\* The sequence s with each run of equal items taken once.
RECURSIVE Squeeze(_)
Squeeze(s) ==
    IF Len(s) <= 1 THEN s
    ELSE IF s[1] = s[2] THEN Squeeze(Tail(s))
         ELSE <<s[1]>> \o Squeeze(Tail(s))

StatesOf(path) == Squeeze([n \in 1..Len(path) |-> StateOf(path[n])])

\* The journals main() allows: the steps from get_conn() on, up to any of
\* them, and the same ended by a failure before "done".
AllSteps == <<"start">> \o main_steps

LifeCycles ==
    { SubSeq(AllSteps, 1, k) : k \in 1..Len(AllSteps) }
      \cup { Append(SubSeq(AllSteps, 1, k), "failed") : k \in 1..(Len(AllSteps) - 1) }

\* Each of them goes through the states in order.
LifeCyclesInOrder ==
    \A p \in LifeCycles :
        \E k \in 1..Len(StateOrder) :
            \/ StatesOf(p) = SubSeq(StateOrder, 1, k)
            \/ k < Len(StateOrder) /\ StatesOf(p) = Append(SubSeq(StateOrder, 1, k), "FAILED")

\* C16: the states a run has been in are the first k of CONNECTING,
\* SCHEMA_READY, COLLECTED, CLASSIFIED, PERSISTED, DONE, each once and in
\* that order, followed or not by FAILED, which never follows DONE; the run
\* is at the last step of its journal, so nothing follows DONE or FAILED;
\* and a run has an open transaction or a committed row only in or after
\* PERSISTED, its working set and its candidates being by then the whole
\* merge and the whole classification.
C16_LifeCycle ==
    /\ LifeCyclesInOrder
    /\ \A r \in Runs :
          /\ pc[r] = journal[r].path[Len(journal[r].path)]
          /\ journal[r].path \in LifeCycles
          /\ tx[r].open \/ ~NoWrite(r) =>
                /\ \E n \in 1..Len(journal[r].path) :
                      journal[r].path[n] = "write_all_transactions"
                /\ df[r] = concat(qdf[r], base[r])
                /\ alerts[r] = detect_fraud(df[r])
          /\ tx[r].open => StateOf(pc[r]) = "PERSISTED"

C16_Witness ==
    \E r, o \in Runs :
        /\ StatesOf(journal[r].path) = StateOrder /\ ~NoWrite(r)
        /\ pc[o] = "failed"
        /\ StatesOf(journal[o].path) =
              <<"CONNECTING", "SCHEMA_READY", "COLLECTED", "CLASSIFIED", "FAILED">>
        /\ df[o] # <<>>

\* C17: each batch is committed whole or not at all. The ledger rows a run
\* has committed are none or those of its whole working set, and the alert
\* rows none or all the new ones of its candidates; every row of either
\* table is a row of a committed batch. A run that failed in
\* write_all_transactions, however many statements it had sent, has
\* committed no ledger row and no alert row; a run that failed in
\* write_alerts has committed no alert row, while its ledger batch stays
\* committed: every id of it has its ledger row.
C17_AllOrNothing ==
    /\ \A x \in transactions_all :
          \E r \in Runs : \E n \in 1..Len(effect[r].upserted) :
              WrittenAs(x, effect[r].upserted[n], effect[r].ledger_time)
    /\ \A a \in fraud_alerts : \E r \in Runs : a \in effect[r].inserted
    /\ \A r \in Runs :
          /\ effect[r].upserted \in {<<>>, ledger_rows(df[r], alerts[r])}
          /\ effect[r].inserted # {} =>
                { a.transaction_id : a \in effect[r].inserted } \subseteq CandidateIds(alerts[r])
          /\ pc[r] = "failed" /\ FailedAt(r) = "write_all_transactions" => NoWrite(r)
          /\ pc[r] = "failed" /\ FailedAt(r) = "write_alerts" =>
                /\ effect[r].inserted = {}
                /\ effect[r].upserted = ledger_rows(df[r], alerts[r])
                /\ Ids(df[r]) \subseteq LedgerIds

C17_Witness ==
    \E r, o \in Runs :
        /\ pc[r] = "failed" /\ FailedAt(r) = "write_all_transactions"
        /\ 0 < i[r] /\ i[r] < Len(df[r])
        /\ pc[o] = "failed" /\ FailedAt(o) = "write_alerts"
        /\ 0 < i[o] /\ effect[o].upserted # <<>>
        /\ transactions_all # {} /\ fraud_alerts = {}

\* The items of the requests answered 200, in the order of the requests.
RECURSIVE Enqueued(_)
Enqueued(reqs) ==
    IF reqs = <<>> THEN <<>>
    ELSE (IF Head(reqs).status = 200 THEN Head(reqs).body ELSE <<>>) \o Enqueued(Tail(reqs))

Accepted == { q \in 1..Len(requests) : requests[q].status = 200 }

\* C18: with nobody popping, the queue holds the items of the requests
\* answered 200, whole and in order, and nothing of a request refused (401)
\* or whose push failed (500); the trigger tasks are one for each request
\* answered 200, created in the order of those requests, and none for any
\* other request, so that a task exists only once its request's items are
\* in the queue; and whatever a task has come to (pending, skipped,
\* dispatched, failed) its request stays answered 200 and its items stay in
\* the queue.
C18_TriggerAfterPush ==
    /\ queue = pushed
    /\ pushed = Enqueued(requests)
    /\ \A q \in 1..Len(requests) : requests[q].status \in {200, 401, 500}
    /\ Len(tasks) = Cardinality(Accepted)
    /\ \A k \in 1..Len(tasks) :
          /\ tasks[k].request \in Accepted
          /\ tasks[k].state \in {"pending", "skipped", "dispatched", "failed"}
          /\ \A l \in 1..Len(tasks) : k < l => tasks[k].request < tasks[l].request

C18_Witness ==
    /\ Len(requests) = 3
    /\ \E q \in 1..3 : requests[q].status = 401 /\ Len(requests[q].body) = 2
    /\ \E q \in 1..3 : requests[q].status = 500 /\ Len(requests[q].body) = 1
    /\ \E q \in 1..3 : requests[q].status = 200 /\ queue = requests[q].body /\ Len(queue) = 2
    /\ Len(tasks) = 1 /\ tasks[1].state = "failed"

\* C19: every ledger row is flagged exactly when its own amount is at or
\* above the threshold, with risk_score 90 and flagged_reason "high_amount"
\* when it is and both null when it is not.
C19_FlagsAgreeWithAmount ==
    \A x \in transactions_all :
        /\ x.is_flagged <=> x.amount >= Threshold
        /\ x.is_flagged =>
              x.risk_score = Some(risk_score_high) /\ x.flagged_reason = Some("high_amount")
        /\ ~x.is_flagged => x.risk_score = None /\ x.flagged_reason = None

\* C20: no run is ended by the store on account of another run: two runs
\* whose ledger batches take the same ids in different orders both go on to
\* their commits, neither being aborted for the lock the other holds.
C20_NeitherAbortedByTheOther ==
    \A r \in Runs : journal[r].error # "DeadlockDetected"

\* The transactions run r has removed from the queue, in the order of its
\* pops, and those of its secondary source: the rows of the file, or the
\* synthetic rows it made.
Removed(r) ==
    [m \in 1..Len(effect[r].popped) |-> json_loads(pushed[effect[r].popped[m]])]

SourceOf(r) == IF csv.exists THEN csv.rows ELSE base[r]

\* C21: once a run is done, every transaction it removed from the queue and
\* every transaction of its secondary source has a ledger row of its id, and
\* every one of them whose amount is at or above the threshold has an alert
\* row of its id, inserted by this run or found there by it.
C21_DoneLosesNothing ==
    \A r \in Runs :
        pc[r] = "done" =>
            /\ csv.exists \/ \E t \in 0..MaxWall : base[r] = synthetic(t)
            /\ Ids(Removed(r)) \cup Ids(SourceOf(r)) \subseteq LedgerIds
            /\ \A d \in Range(Removed(r)) \cup Range(SourceOf(r)) :
                  d.amount >= Threshold => d.transaction_id \in AlertIds

C21_Witness ==
    \E r, o \in Runs :
        /\ pc[r] = "done" /\ pc[o] = "done"
        /\ effect[r].popped # <<>>
        /\ csv.rows # <<>>
        /\ \E d \in Range(Removed(r)) : d.amount >= Threshold
        /\ \E d \in Range(SourceOf(r)) : d.amount < Threshold
        /\ effect[r].inserted = {} /\ effect[o].inserted # {}

====
